---- MODULE Spec2Model ----
(***************************************************************************)
(* Model of the boundary-segment stitching loop of                         *)
(* get_area_bounding_points_check_orderCM (src/overpass/request.py).       *)
(*                                                                         *)
(* The function reads the way members of one relation in member order and  *)
(* appends each way's vertex list to the main ring `points`, to the most   *)
(* recent ring of `exclaves`, or to `ignored`.  One action of the model is *)
(* one branch of one iteration of the `for` loop (lines 151-240), or the   *)
(* `return` of line 242.  A vertex is the pair <<lon, lat>> the code       *)
(* builds from a geometry entry {lat, lon}; list membership and equality   *)
(* are by value, as Python's `in` and `==` on lists of numbers are.        *)
(***************************************************************************)
EXTENDS Integers, Sequences, FiniteSets

VARIABLES
    members_ways,     \* the way members of the relation, in member order
    ignore_enclaves,  \* the keyword argument
    i,                \* number of way members consumed (the loop index)
    points,           \* the main ring
    exclaves,         \* the list of exclave rings
    ignored,          \* vertices of segments classified as ignored
    pc,               \* "loop", "returned" or "raised"
    branch,           \* the branch the last iteration took
    error,            \* the exception that left the function, or "none"
    result            \* what the call handed back, or NoResult

vars == <<members_ways, ignore_enclaves, i, points, exclaves, ignored,
          pc, branch, error, result>>

NoResult == "no result"

(***************************************************************************)
(* Bounds of the model.                                                    *)
(***************************************************************************)
\* most vertices in all ways of a generic input together
MaxTotal == 7
\* longest final way of the inputs that start with three rings
MaxProbeLen == 3
\* budget of an input with short ways: one per way plus one per vertex
MaxShapeSize == 9

(***************************************************************************)
(* Pure helpers: the list operations the loop uses.                        *)
(***************************************************************************)

\* [p["lon"], p["lat"]]
Point(p) == <<p.lon, p.lat>>

\* curr_segm = [[p["lon"], p["lat"]] for p in m["geometry"]]
Segm(m) == [k \in 1..Len(m.geometry) |-> Point(m.geometry[k])]

\* v in s
In(v, s) == \E k \in 1..Len(s) : s[k] = v

\* Reversed with the slice forgotten: the list as it is
Reversed_Not(s) == s

\* s[::-1]
Reversed(s) == [k \in 1..Len(s) |-> s[Len(s) + 1 - k]]

\* s[-1]
LastOf(s) == s[Len(s)]

\* s.extend(t) leaves s \o t
Extend(s, t) == s \o t

\* exclaves[-1].extend(t)
ExtendLastRing(rings, t) ==
    [rings EXCEPT ![Len(rings)] = Extend(rings[Len(rings)], t)]

(***************************************************************************)
(* Inputs.  A way member is the record the decoded response holds: its     *)
(* type and its geometry, a list of {lat, lon} entries.  The code compares *)
(* vertices by value only, so a generic input is taken up to renaming of   *)
(* its vertices: the k-th distinct vertex of the input, in order of first  *)
(* occurrence, is the k-th entry of VertexTable.                           *)
(***************************************************************************)
VertexTable ==
    << [lon |-> 0, lat |-> 0], [lon |-> 1, lat |-> 0], [lon |-> 1, lat |-> 1],
       [lon |-> 0, lat |-> 1], [lon |-> 5, lat |-> 5], [lon |-> 6, lat |-> 5],
       [lon |-> 6, lat |-> 6] >>

NumVerts == Len(VertexTable)

Way(geom) == [type |-> "way", geometry |-> geom]

Min(a, b) == IF a < b THEN a ELSE b

RECURSIVE MaxOf(_)
MaxOf(s) == IF s = <<>> THEN 0
            ELSE LET m == MaxOf(Tail(s)) IN IF Head(s) > m THEN Head(s) ELSE m

\* index sequences of length n in which every vertex index first occurs
\* after all smaller ones
RECURSIVE CanonSeqs(_)
CanonSeqs(n) ==
    IF n = 0 THEN {<<>>}
    ELSE UNION { { Append(s, v) : v \in 1..Min(MaxOf(s) + 1, NumVerts) } :
                 s \in CanonSeqs(n - 1) }

\* the lists of way lengths an input may have: every way has at least
\* minLen vertices and costs its length plus overhead out of budget
RECURSIVE LenTuples(_, _, _)
LenTuples(budget, minLen, overhead) ==
    {<<>>} \cup
    UNION { { <<l>> \o rest :
              rest \in LenTuples(budget - l - overhead, minLen, overhead) } :
            l \in minLen..(budget - overhead) }

RECURSIVE SumOf(_)
SumOf(s) == IF s = <<>> THEN 0 ELSE Head(s) + SumOf(Tail(s))

\* the flat index sequence cut into ways of the given lengths
RECURSIVE CutWays(_, _)
CutWays(flat, lens) ==
    IF lens = <<>> THEN <<>>
    ELSE <<Way([k \in 1..Head(lens) |-> VertexTable[flat[k]]])>> \o
         CutWays(SubSeq(flat, Head(lens) + 1, Len(flat)), Tail(lens))

\* ways is the flat index sequence of some canonical input cut into ways
\* of the lengths of one of lenTuples
IsInputOf(ways, lenTuples) ==
    \E lens \in lenTuples :
        \E flat \in CanonSeqs(SumOf(lens)) : ways = CutWays(flat, lens)

\* every relation whose ways have at least 2 vertices and MaxTotal together
IsGenericInput(ways) == IsInputOf(ways, LenTuples(MaxTotal, 2, 0))

Geom(pairs) == [k \in 1..Len(pairs) |-> [lon |-> pairs[k][1], lat |-> pairs[k][2]]]

\* the two-way square and the disjoint third way
WayA == Way(Geom(<< <<0, 0>>, <<1, 0>>, <<1, 1>> >>))
WayB == Way(Geom(<< <<1, 1>>, <<0, 1>>, <<0, 0>> >>))
WayBReversed == Way(Geom(<< <<0, 0>>, <<0, 1>>, <<1, 1>> >>))
WayC == Way(Geom(<< <<5, 5>>, <<6, 5>>, <<6, 6>>, <<5, 5>> >>))

SquareInputs == { <<WayA, WayB>>, <<WayA, WayBReversed>> }

SquareAndIslandInputs == { <<WayA, WayB, WayC>>, <<WayA, WayBReversed, WayC>> }

\* a main ring, two exclave rings, then any one way of 2..MaxProbeLen
\* vertices: the first way is kept because its last vertex lies inside the
\* second, whose own endpoints are not in the main ring
ThreeRingPrefix ==
    << Way(<<VertexTable[1], VertexTable[2]>>),
       Way(<<VertexTable[3], VertexTable[2], VertexTable[4]>>),
       Way(<<VertexTable[5], VertexTable[6]>>) >>

ProbeWays ==
    UNION { { Way([k \in 1..n |-> VertexTable[f[k]]]) : f \in [1..n -> 1..NumVerts] } :
            n \in 2..MaxProbeLen }

ThreeRingInputs == { Append(ThreeRingPrefix, w) : w \in ProbeWays }

(***************************************************************************)
(* State after lines 128-150: the collections are empty, the loop has not  *)
(* started.                                                                *)
(***************************************************************************)
InitLocals ==
    /\ i = 0
    /\ points = <<>>
    /\ exclaves = <<>>
    /\ ignored = <<>>
    /\ pc = "loop"
    /\ branch = "none"
    /\ error = "none"
    /\ result = NoResult

Init ==
    /\ \/ IsGenericInput(members_ways)
       \/ members_ways \in SquareAndIslandInputs
       \/ members_ways \in ThreeRingInputs
    /\ ignore_enclaves \in BOOLEAN
    /\ InitLocals

\* relations that may hold ways of 0 or 1 vertices
InitShape ==
    /\ IsInputOf(members_ways, LenTuples(MaxShapeSize, 0, 1))
    /\ ignore_enclaves \in BOOLEAN
    /\ InitLocals

(***************************************************************************)
(* Locals of one iteration (lines 151-159, 187-189, 218-226).              *)
(***************************************************************************)
Looping == pc = "loop" /\ i < Len(members_ways)

m == members_ways[i + 1]
curr_segm == Segm(m)
first == curr_segm[1]
last == LastOf(curr_segm)
f_inp == In(first, points)
f_iprev == first = LastOf(points)
l_inp == In(last, points)
l_iprev == last = LastOf(points)
last_exclave == LastOf(exclaves)
f_ine == In(first, last_exclave)
l_ine == In(last, last_exclave)
next_segm == Segm(members_ways[i + 2])

\* the `if len(points)` body, entered with a geometry that has a vertex
MainPass == Looping /\ Len(points) > 0 /\ Len(curr_segm) > 0
\* the `else` body
FirstPass == Looping /\ Len(points) = 0 /\ Len(curr_segm) > 0

\* an iteration that ends normally goes on to the next member
Continue(b) == i' = i + 1 /\ pc' = "loop" /\ branch' = b /\ error' = "none"

\* an exception leaves the loop and the function: nothing is returned
Raise(b, e) ==
    /\ pc' = "raised" /\ branch' = b /\ error' = e
    /\ UNCHANGED <<i, points, exclaves, ignored>>

Frame == UNCHANGED <<members_ways, ignore_enclaves, result>>

(***************************************************************************)
(* The branches of the loop body.                                          *)
(***************************************************************************)

\* lines 161-166: both endpoints in the main ring, one of them at its end
ClosingSegment ==
    /\ MainPass /\ f_inp /\ l_inp
    /\ first = LastOf(points) \/ last = LastOf(points)
    /\ points' = IF first = LastOf(points)
                 THEN Extend(points, curr_segm)
                 ELSE Extend(points, Reversed(curr_segm))
    /\ Continue(IF first = LastOf(points) THEN "closing" ELSE "closing reversed")
    /\ UNCHANGED <<exclaves, ignored>>
    /\ Frame

\* NotConsecutive with the raise forgotten: the way is skipped
NotConsecutive_Skips ==
    /\ MainPass /\ f_inp /\ l_inp
    /\ first # LastOf(points) /\ last # LastOf(points)
    /\ Continue("not consecutive")
    /\ UNCHANGED <<points, exclaves, ignored>>
    /\ Frame

\* lines 161-168: both endpoints in the main ring, neither at its end
NotConsecutive ==
    /\ MainPass /\ f_inp /\ l_inp
    /\ first # LastOf(points) /\ last # LastOf(points)
    /\ Raise("not consecutive", "Exception")
    /\ Frame

\* NextSegment with the ignored way dropped instead of recorded
NextSegment_ForgetsIgnored ==
    /\ MainPass /\ ~(f_inp /\ l_inp) /\ f_inp
    /\ IF ignore_enclaves /\ ~f_iprev
       THEN /\ Continue("ignored first")
            /\ UNCHANGED <<points, exclaves, ignored>>
       ELSE /\ points' = Extend(points, curr_segm)
            /\ Continue("next")
            /\ UNCHANGED <<exclaves, ignored>>
    /\ Frame

\* NextSegment without the ignore_enclaves test: the way is always appended
NextSegment_NeverIgnores ==
    /\ MainPass /\ ~(f_inp /\ l_inp) /\ f_inp
    /\ points' = Extend(points, curr_segm)
    /\ Continue("next")
    /\ UNCHANGED <<exclaves, ignored>>
    /\ Frame

\* lines 169-174: only the first endpoint in the main ring
NextSegment ==
    /\ MainPass /\ ~(f_inp /\ l_inp) /\ f_inp
    /\ IF ignore_enclaves /\ ~f_iprev
       THEN /\ ignored' = Extend(ignored, curr_segm)
            /\ Continue("ignored first")
            /\ UNCHANGED <<points, exclaves>>
       ELSE /\ points' = Extend(points, curr_segm)
            /\ Continue("next")
            /\ UNCHANGED <<exclaves, ignored>>
    /\ Frame

\* NextSegmentReversed with the test of line 176 taken from line 170
NextSegmentReversed_TestsFirst ==
    /\ MainPass /\ ~(f_inp /\ l_inp) /\ ~f_inp /\ l_inp
    /\ IF ignore_enclaves /\ ~f_iprev
       THEN /\ ignored' = Extend(ignored, curr_segm)
            /\ Continue("ignored last")
            /\ UNCHANGED <<points, exclaves>>
       ELSE /\ points' = Extend(points, curr_segm)
            /\ Continue("next reversed")
            /\ UNCHANGED <<exclaves, ignored>>
    /\ Frame

\* lines 175-180: only the last endpoint in the main ring
NextSegmentReversed ==
    /\ MainPass /\ ~(f_inp /\ l_inp) /\ ~f_inp /\ l_inp
    /\ IF ignore_enclaves /\ ~l_iprev
       THEN /\ ignored' = Extend(ignored, curr_segm)
            /\ Continue("ignored last")
            /\ UNCHANGED <<points, exclaves>>
       ELSE /\ points' = Extend(points, Reversed(curr_segm))
            /\ Continue("next reversed")
            /\ UNCHANGED <<exclaves, ignored>>
    /\ Frame

\* lines 181-182: neither endpoint in the main ring
Isolated == MainPass /\ ~f_inp /\ ~l_inp

\* line 183
NextToIgnored == ignore_enclaves /\ (In(first, ignored) \/ In(last, ignored))

\* lines 183-185: an isolated part next to an ignored one
IsolatedIgnored ==
    /\ Isolated /\ NextToIgnored
    /\ ignored' = Extend(ignored, curr_segm)
    /\ Continue("ignored isolated")
    /\ UNCHANGED <<points, exclaves>>
    /\ Frame

\* lines 186-197, 201-206: the part goes on the most recent exclave ring
ExtendExclave ==
    /\ Isolated /\ ~NextToIgnored
    /\ Len(exclaves) > 0
    /\ \/ f_ine /\ l_ine /\ first = LastOf(last_exclave)
          /\ exclaves' = ExtendLastRing(exclaves, curr_segm)
          /\ Continue("exclave closing")
       \/ f_ine /\ l_ine /\ first # LastOf(last_exclave)
          /\ last = LastOf(last_exclave)
          /\ exclaves' = ExtendLastRing(exclaves, Reversed(curr_segm))
          /\ Continue("exclave closing reversed")
       \/ ~(f_ine /\ l_ine) /\ f_ine
          /\ exclaves' = ExtendLastRing(exclaves, curr_segm)
          /\ Continue("exclave next")
       \/ ~(f_ine /\ l_ine) /\ ~f_ine /\ l_ine
          /\ exclaves' = ExtendLastRing(exclaves, Reversed(curr_segm))
          /\ Continue("exclave next reversed")
    /\ UNCHANGED <<points, ignored>>
    /\ Frame

\* lines 191-200: both endpoints in the most recent exclave ring, neither
\* at its end
ExclaveNotConsecutive ==
    /\ Isolated /\ ~NextToIgnored
    /\ Len(exclaves) > 0
    /\ f_ine /\ l_ine
    /\ first # LastOf(last_exclave) /\ last # LastOf(last_exclave)
    /\ Raise("exclave not consecutive", "Exception")
    /\ Frame

\* NewExclave with the isolated part put on the main ring
NewExclave_IntoMainRing ==
    /\ Isolated /\ ~NextToIgnored
    /\ Len(exclaves) > 0 => ~f_ine /\ ~l_ine
    /\ points' = Extend(points, curr_segm)
    /\ Continue(IF Len(exclaves) > 0 THEN "new exclave" ELSE "first exclave")
    /\ UNCHANGED <<exclaves, ignored>>
    /\ Frame

\* NewExclave looking through every exclave ring: the part goes on the
\* oldest ring that holds its first endpoint, a new ring if none does
NewExclave_SearchesAllRings ==
    /\ Isolated /\ ~NextToIgnored
    /\ Len(exclaves) > 0 => ~f_ine /\ ~l_ine
    /\ LET holding == { k \in 1..Len(exclaves) : In(first, exclaves[k]) } IN
       IF holding = {}
       THEN exclaves' = Append(exclaves, curr_segm)
       ELSE LET k == CHOOSE k \in holding : \A j \in holding : k <= j IN
            exclaves' = [exclaves EXCEPT ![k] = Extend(exclaves[k], curr_segm)]
    /\ Continue(IF Len(exclaves) > 0 THEN "new exclave" ELSE "first exclave")
    /\ UNCHANGED <<points, ignored>>
    /\ Frame

\* lines 207-212: the part opens a new exclave ring
NewExclave ==
    /\ Isolated /\ ~NextToIgnored
    /\ Len(exclaves) > 0 => ~f_ine /\ ~l_ine
    /\ exclaves' = Append(exclaves, curr_segm)
    /\ Continue(IF Len(exclaves) > 0 THEN "new exclave" ELSE "first exclave")
    /\ UNCHANGED <<points, ignored>>
    /\ Frame

\* lines 213-240: the main ring is empty and a next way member exists; the
\* segment is oriented by the vertices of the next way member
FirstSegment ==
    /\ FirstPass
    /\ i + 2 <= Len(members_ways)
    /\ IF In(last, next_segm)
       THEN /\ points' = Extend(points, curr_segm)
            /\ Continue("first")
            /\ UNCHANGED exclaves
       ELSE IF In(first, next_segm)
       THEN /\ points' = Extend(points, Reversed(curr_segm))
            /\ Continue("first reversed")
            /\ UNCHANGED exclaves
       ELSE /\ exclaves' = Append(exclaves, curr_segm)
            /\ Continue("first as exclave")
            /\ UNCHANGED points
    /\ UNCHANGED ignored
    /\ Frame

\* NoNextSegment with the missing way tolerated: the segment is kept
NoNextSegment_KeepsWay ==
    /\ FirstPass
    /\ i + 2 > Len(members_ways)
    /\ points' = Extend(points, curr_segm)
    /\ Continue("first")
    /\ UNCHANGED <<exclaves, ignored>>
    /\ Frame

\* lines 225-230: the main ring is empty and there is no next way member;
\* members_ways[i+1] raises IndexError, and so does the handler's print
NoNextSegment ==
    /\ FirstPass
    /\ i + 2 > Len(members_ways)
    /\ Raise("no next segment", "IndexError")
    /\ Frame

\* lines 154 and 218: the first vertex of a geometry without vertices
EmptyGeometry ==
    /\ Looping /\ Len(curr_segm) = 0
    /\ Raise("empty geometry", "IndexError")
    /\ Frame

\* line 242, after the last way member.  The returned tuple also carries
\* nodes and bounds, which lines 125-139 take from the response before the
\* loop and which the loop never reads or writes; they are left out.
Return ==
    /\ pc = "loop" /\ i = Len(members_ways)
    /\ pc' = "returned"
    /\ result' = [points |-> points, exclaves |-> exclaves]
    /\ UNCHANGED <<members_ways, ignore_enclaves, i, points, exclaves, ignored,
                   branch, error>>

Next ==
    \/ ClosingSegment
    \/ NotConsecutive
    \/ NextSegment
    \/ NextSegmentReversed
    \/ IsolatedIgnored
    \/ ExtendExclave
    \/ ExclaveNotConsecutive
    \/ NewExclave
    \/ FirstSegment
    \/ NoNextSegment
    \/ Return

NextShape == Next \/ EmptyGeometry

Spec == Init /\ [][Next]_vars

\* the same program on relations that may hold ways of 0 or 1 vertices
SpecShape == InitShape /\ [][NextShape]_vars

(***************************************************************************)
(* Vocabulary of the properties.                                           *)
(***************************************************************************)
Occurrences(v, s) == Cardinality({ k \in 1..Len(s) : s[k] = v })

RECURSIVE Flatten(_)
Flatten(ss) == IF ss = <<>> THEN <<>> ELSE Head(ss) \o Flatten(Tail(ss))

\* every vertex of every way, in input order
WayVertices == Flatten([k \in 1..Len(members_ways) |-> Segm(members_ways[k])])

\* the main ring, the exclave rings and the ignored vertices
Collections == <<points>> \o exclaves \o <<ignored>>

CollectionsHolding(v) == { k \in 1..Len(Collections) : In(v, Collections[k]) }

Returned == pc = "returned"

SquareRing == << <<0, 0>>, <<1, 0>>, <<1, 1>>, <<0, 1>>, <<0, 0>> >>

\* the same ring with the vertex the two ways share taken from both
SquareRingBuilt ==
    << <<0, 0>>, <<1, 0>>, <<1, 1>>, <<1, 1>>, <<0, 1>>, <<0, 0>> >>

\* the segment the last completed iteration consumed, and the main ring
\* before that iteration appended it
prev_segm == Segm(members_ways[i])
points_before == SubSeq(points, 1, Len(points) - Len(prev_segm))

(***************************************************************************)
(* C1.  As claimed: after a successful run every vertex of every way is in *)
(* exactly one of the main ring, one exclave ring and the ignored          *)
(* vertices.                                                               *)
(***************************************************************************)
C1_PartitionAsClaimed ==
    Returned =>
        \A k \in 1..Len(WayVertices) :
            Cardinality(CollectionsHolding(WayVertices[k])) = 1

(***************************************************************************)
(* C1, amended.  After a successful run every vertex of every way is in at *)
(* least one of the collections, and the collections together hold every   *)
(* vertex value exactly as often as the ways do: each way is placed whole  *)
(* and once.  The returned rings are the rings built.                      *)
(***************************************************************************)
C1_EveryWayPlacedOnce ==
    Returned =>
        /\ result.points = points /\ result.exclaves = exclaves
        /\ \A k \in 1..Len(WayVertices) :
              LET v == WayVertices[k] IN
              /\ CollectionsHolding(v) # {}
              /\ Occurrences(v, Flatten(Collections)) = Occurrences(v, WayVertices)

\* a successful run in which an ignored way touches the main ring, so that
\* the vertex they share is in both
C1_Witness ==
    /\ Returned
    /\ \E k \in 1..Len(ignored) : In(ignored[k], points)

(***************************************************************************)
(* C2.  As claimed: with the ways A, B of the unit square, B given forward *)
(* or reversed, A is kept as it is, the run succeeds and returns the main  *)
(* ring (0,0) (1,0) (1,1) (0,1) (0,0) of 5 vertices and no exclave ring.   *)
(***************************************************************************)
C2_SquareRingAsClaimed ==
    members_ways \in SquareInputs =>
        /\ pc # "raised"
        /\ i >= 1 => SubSeq(points, 1, 3) = << <<0, 0>>, <<1, 0>>, <<1, 1>> >>
        /\ Returned => /\ result.points = SquareRing
                       /\ Len(result.points) = 5
                       /\ result.exclaves = <<>>

(***************************************************************************)
(* C2, amended.  With the same ways A is kept as it is, B is appended      *)
(* whole and oriented so that it starts at A's last vertex, and the run    *)
(* returns the main ring (0,0) (1,0) (1,1) (1,1) (0,1) (0,0) of 6          *)
(* vertices, the shared vertex (1,1) once from A and once from B, and no   *)
(* exclave ring.                                                           *)
(***************************************************************************)
C2_SquareRingBuilt ==
    members_ways \in SquareInputs =>
        /\ pc # "raised"
        /\ i >= 1 => SubSeq(points, 1, 3) = << <<0, 0>>, <<1, 0>>, <<1, 1>> >>
        /\ i >= 2 => points[4] = points[3]
        /\ Returned => /\ result.points = SquareRingBuilt
                       /\ Len(result.points) = 6
                       /\ result.exclaves = <<>>

C2_Witness ==
    /\ Returned
    /\ members_ways = <<WayA, WayBReversed>>
    /\ branch = "closing reversed"

(***************************************************************************)
(* C3.  A way compared with the non-empty main ring that has exactly one   *)
(* endpoint in it, and that endpoint is not the ring's last vertex: with   *)
(* ignore_enclaves its vertices are added to the ignored vertices and the  *)
(* rings stay as they are; without, it is appended to the main ring,       *)
(* forward if the first endpoint is the one in the ring and reversed if    *)
(* the last is, and the ignored vertices stay as they are.                 *)
(***************************************************************************)
C3_EnclaveSuppression ==
    [][ ( /\ MainPass
          /\ f_inp # l_inp
          /\ (IF f_inp THEN first ELSE last) # points[Len(points)] )
        =>
        IF ignore_enclaves
        THEN /\ points' = points
             /\ exclaves' = exclaves
             /\ ignored' = ignored \o curr_segm
             /\ pc' = "loop"
        ELSE /\ points' = points \o
                    (IF f_inp THEN curr_segm
                     ELSE [k \in 1..Len(curr_segm) |->
                              curr_segm[Len(curr_segm) + 1 - k]])
             /\ exclaves' = exclaves
             /\ ignored' = ignored
             /\ pc' = "loop"
      ]_vars

\* a way was ignored because only its last endpoint touched the main ring
C3_Witness ==
    /\ branch = "ignored last"
    /\ ignore_enclaves
    /\ In(prev_segm[Len(prev_segm)], points)
    /\ prev_segm[Len(prev_segm)] # points[Len(points)]

(***************************************************************************)
(* C4.  A way whose endpoints are both in the main ring, neither being the *)
(* ring's last vertex, makes the call raise; a call that raised hands      *)
(* nothing back and never returns.                                         *)
(***************************************************************************)
C4_NotConsecutiveRaises ==
    /\ [][ ( /\ MainPass
             /\ f_inp /\ l_inp
             /\ first # points[Len(points)]
             /\ last # points[Len(points)] )
           => pc' = "raised" /\ result' = NoResult ]_vars
    /\ [][ pc = "raised" => pc' = "raised" /\ result' = NoResult ]_vars
    /\ [](pc = "raised" => result = NoResult)

C4_Witness ==
    /\ pc = "raised"
    /\ branch = "not consecutive"
    /\ Len(points) > 0
    /\ result = NoResult

C6_SingleWayRaises ==
    Len(members_ways) = 1 =>
        /\ pc # "returned"
        /\ result = NoResult
        /\ i = 0
        /\ points = <<>>
        /\ pc # "loop" => pc = "raised" /\ branch = "no next segment"

C6_Witness ==
    /\ Len(members_ways) = 1
    /\ pc = "raised"
    /\ error = "IndexError"

(***************************************************************************)
(* C7.  As claimed: a relation with a way member of fewer than 2 vertices  *)
(* never makes the call return a result.                                   *)
(***************************************************************************)
C7_ShortWayAborts ==
    (\E k \in 1..Len(members_ways) : Len(members_ways[k].geometry) < 2) =>
        /\ pc # "returned"
        /\ result = NoResult

(***************************************************************************)
(* C8.  As claimed: whenever a segment is appended to a non-empty ring,    *)
(* main or exclave, the first vertex appended is the ring's last vertex    *)
(* just before the append.                                                 *)
(***************************************************************************)
C8_ContiguousAsClaimed ==
    [][ /\ (points # <<>> /\ points' # points) =>
              points'[Len(points) + 1] = points[Len(points)]
        /\ \A k \in 1..Len(exclaves) :
              exclaves'[k] # exclaves[k] =>
                  exclaves'[k][Len(exclaves[k]) + 1] = exclaves[k][Len(exclaves[k])]
      ]_vars

(***************************************************************************)
(* C8, amended.  Whenever a segment is appended to a non-empty ring, main  *)
(* or exclave, the first vertex appended is a vertex the ring already      *)
(* holds; it is the ring's last vertex when both endpoints of the segment  *)
(* are in the ring and, for the main ring, whenever ignore_enclaves is     *)
(* set.                                                                    *)
(***************************************************************************)
C8_SharedVertexAppended ==
    [][ /\ (points # <<>> /\ points' # points) =>
              LET v == points'[Len(points) + 1] IN
              /\ \E k \in 1..Len(points) : points[k] = v
              /\ (ignore_enclaves \/ (f_inp /\ l_inp)) => v = points[Len(points)]
        /\ \A k \in 1..Len(exclaves) :
              exclaves'[k] # exclaves[k] =>
                  LET ring == exclaves[k]
                      v == exclaves'[k][Len(ring) + 1] IN
                  /\ \E j \in 1..Len(ring) : ring[j] = v
                  /\ (In(first, ring) /\ In(last, ring)) => v = ring[Len(ring)]
      ]_vars

\* without ignore_enclaves a way was appended forward to the main ring at
\* a vertex that was not the ring's last
C8_Witness ==
    /\ branch = "next"
    /\ ~ignore_enclaves
    /\ In(prev_segm[1], points_before)
    /\ prev_segm[1] # points_before[Len(points_before)]

(***************************************************************************)
(* C9.  As claimed: only the very first way is oriented by looking at the  *)
(* way after it; no later way is, even while the main ring is still empty. *)
(***************************************************************************)
C9_LookAheadOnlyForFirstWay ==
    /\ branch \in {"first", "first reversed", "first as exclave"} => i = 1
    /\ branch = "no next segment" => i = 0

====
